---- MODULE Spec2Model ----
(***************************************************************************)
(* A model of the ImageMagick HTTP API (ruepp-jenkins/docker-imagemagick-  *)
(* api): the auth gate, the routing of server.js, the multer upload, the   *)
(* route handlers (every revision present in the source tree), the temp    *)
(* file manager and the global error handler.                              *)
(*                                                                         *)
(* JavaScript strings are sequences of one-character strings, so that      *)
(* startsWith, substring, trim, toLowerCase, includes and split are        *)
(* computed as the code computes them.  The value `undefined` is the       *)
(* one-element sequence Undefined, which is no string of characters.       *)
(***************************************************************************)
EXTENDS Integers, Sequences, FiniteSets, TLC

(***************************************************************************)
(* Bounds of the model.                                                    *)
(***************************************************************************)
\* Requests served, one after the other, in one behaviour.
MaxRequests == 1

(***************************************************************************)
(* JavaScript values.                                                      *)
(***************************************************************************)
Undefined == <<"<undefined>">>
Null == <<"<null>">>

\* !x for a string-or-undefined value x: undefined, null and '' are falsy.
Falsy(x) == x = Undefined \/ x = Null \/ x = <<>>
Truthy(x) == ~Falsy(x)

IsSpace(c) == c \in {" ", "\t", "\n"}

RECURSIVE TrimStart(_)
TrimStart(s) ==
  IF s # <<>> /\ IsSpace(Head(s)) THEN TrimStart(Tail(s)) ELSE s

RECURSIVE TrimEnd(_)
TrimEnd(s) ==
  IF s # <<>> /\ IsSpace(s[Len(s)]) THEN TrimEnd(SubSeq(s, 1, Len(s) - 1)) ELSE s

\* String.prototype.trim
Trim(s) == TrimEnd(TrimStart(s))

\* String.prototype.startsWith
StartsWith(s, p) == Len(s) >= Len(p) /\ SubSeq(s, 1, Len(p)) = p

\* String.prototype.substring(n) (n is 0-based)
Substring(s, n) == SubSeq(s, n + 1, Len(s))

UpperToLower ==
  [c \in {"A", "B", "E", "F", "G", "I", "J", "L", "M", "N", "O", "P", "R", "T"} |->
     CASE c = "A" -> "a" [] c = "B" -> "b" [] c = "E" -> "e" [] c = "F" -> "f"
       [] c = "G" -> "g" [] c = "I" -> "i" [] c = "J" -> "j" [] c = "L" -> "l"
       [] c = "M" -> "m" [] c = "N" -> "n" [] c = "O" -> "o" [] c = "P" -> "p"
       [] c = "R" -> "r" [] c = "T" -> "t"]

\* String.prototype.toLowerCase
ToLowerCase(s) ==
  [i \in 1..Len(s) |-> IF s[i] \in DOMAIN UpperToLower THEN UpperToLower[s[i]] ELSE s[i]]

\* String.prototype.includes(c) for a one-character c
Includes(s, c) == \E i \in 1..Len(s) : s[i] = c

\* s.split(c).pop(): what follows the last c in s (s itself when c is absent)
RECURSIVE AfterLast(_, _)
AfterLast(s, c) ==
  IF s = <<>> THEN <<>>
  ELSE IF s[Len(s)] = c THEN <<>>
  ELSE AfterLast(SubSeq(s, 1, Len(s) - 1), c) \o <<s[Len(s)]>>

(***************************************************************************)
(* String literals of the source.                                          *)
(***************************************************************************)
sBearer == <<"B", "e", "a", "r", "e", "r", " ">>
sT == <<"t">>
sX == <<"x">>
mJpeg == <<"i", "m", "a", "g", "e", "/", "j", "p", "e", "g">>
mPng == <<"i", "m", "a", "g", "e", "/", "p", "n", "g">>
mGif == <<"i", "m", "a", "g", "e", "/", "g", "i", "f">>
mWebp == <<"i", "m", "a", "g", "e", "/", "w", "e", "b", "p">>
mBmp == <<"i", "m", "a", "g", "e", "/", "b", "m", "p">>
mTiff == <<"i", "m", "a", "g", "e", "/", "t", "i", "f", "f">>
mSvg == <<"i", "m", "a", "g", "e", "/", "s", "v", "g", "+", "x", "m", "l">>
mText == <<"t", "e", "x", "t", "/", "p", "l", "a", "i", "n">>
sJpg == <<"j", "p", "g">>
sJpeg == <<"j", "p", "e", "g">>
sPng == <<"p", "n", "g">>
sGif == <<"g", "i", "f">>
sWebp == <<"w", "e", "b", "p">>
sBmp == <<"b", "m", "p">>
sTiff == <<"t", "i", "f", "f">>
sSvg == <<"s", "v", "g">>
sRotate == <<"r", "o", "t", "a", "t", "e">>
sFlip == <<"f", "l", "i", "p">>
sHorizontal == <<"h", "o", "r", "i", "z", "o", "n", "t", "a", "l">>
sVertical == <<"v", "e", "r", "t", "i", "c", "a", "l">>
sManual == <<"m", "a", "n", "u", "a", "l">>
sTrim == <<"t", "r", "i", "m">>
sBase64 == <<"b", "a", "s", "e", "6", "4">>
sBinary == <<"b", "i", "n", "a", "r", "y">>
sOut == <<"_", "o", "u", "t">>
sResized == <<"_", "r", "e", "s", "i", "z", "e", "d">>
sConverted == <<"_", "c", "o", "n", "v", "e", "r", "t", "e", "d">>
sCropped == <<"_", "c", "r", "o", "p", "p", "e", "d">>
sOptimized == <<"_", "o", "p", "t", "i", "m", "i", "z", "e", "d">>
sFLIP == <<"F", "L", "I", "P">>
sTRIM == <<"T", "R", "I", "M">>
sJPEG == <<"J", "P", "E", "G">>
s0 == <<"0">>
s1 == <<"1">>
s5 == <<"5">>
s6 == <<"6">>
s8 == <<"8">>
s45 == <<"4", "5">>
s90 == <<"9", "0">>
sM90 == <<"-", "9", "0">>
s90x == <<"9", "0", "x">>
s90nl == <<"9", "0", "\n">>
sM1 == <<"-", "1">>
s100 == <<"1", "0", "0">>
s101 == <<"1", "0", "1">>
sBlank == <<" ">>
s1e3 == <<"1", "e", "3">>

(***************************************************************************)
(* The auth gate (middleware/auth.js).                                     *)
(***************************************************************************)
\* The outcome of authMiddleware for the configured token and the request's
\* Authorization header: 0 stands for next(), otherwise the status sent.
\* Line 10: a token that is unset, empty or blank switches the gate off.
TokenConfigured(apiToken) == ~(Falsy(apiToken) \/ Trim(apiToken) = <<>>)

\* authMiddleware with `authHeader === undefined` for `!authHeader`.
authMiddleware_StrictMissing(apiToken, authHeader) ==
  IF ~TokenConfigured(apiToken) THEN 0
  ELSE IF authHeader = Undefined THEN 401
  ELSE LET token == IF StartsWith(authHeader, sBearer)
                    THEN Substring(authHeader, 7)
                    ELSE authHeader
       IN  IF token # apiToken THEN 403 ELSE 0

authMiddleware(apiToken, authHeader) ==
  IF ~TokenConfigured(apiToken) THEN 0
  ELSE IF Falsy(authHeader) THEN 401
  ELSE LET token == IF StartsWith(authHeader, sBearer)
                    THEN Substring(authHeader, 7)
                    ELSE authHeader
       IN  IF token # apiToken THEN 403 ELSE 0

(***************************************************************************)
(* Routing (server.js).  Two revisions of server.js are in the tree:       *)
(* revision 1 serves the interactive docs under /api-docs and an API       *)
(* information document at GET /; revision 2 serves the docs at GET /.     *)
(***************************************************************************)
ServerRevs == {1, 2}
Methods == {"GET", "POST"}
ProcessingPaths == {"/terminal", "/resize", "/convert", "/rotate", "/crop", "/optimize"}
Paths == {"/", "/health", "/api-docs", "/nope"} \cup ProcessingPaths

\* The routes registered before app.use(authMiddleware).
PreAuthRoute(rev, method, path) ==
  IF rev = 1 /\ path = "/api-docs" THEN "docs"
  ELSE IF rev = 2 /\ method = "GET" /\ path = "/" THEN "docs"
  ELSE "none"

\* The routes registered after app.use(authMiddleware), in order.
PostAuthRoute(rev, method, path) ==
  IF method = "GET" /\ path = "/health" THEN "health"
  ELSE IF rev = 1 /\ method = "GET" /\ path = "/" THEN "info"
  ELSE IF method = "POST" /\ path \in ProcessingPaths THEN "router"
  ELSE "notFound"

\* The revisions of the route handlers in the tree, by mount path.  The
\* "_b64" revisions answer in base64 only; the others read responseMode.
HandlersAt(path) ==
  CASE path = "/terminal" -> {"terminal", "terminal_b64"}
    [] path = "/resize"   -> {"resize"}
    [] path = "/convert"  -> {"convert"}
    [] path = "/rotate"   -> {"rotate", "rotate_b64"}
    [] path = "/crop"     -> {"crop", "crop_b64"}
    [] path = "/optimize" -> {"optimize", "optimize_fmt"}
    [] OTHER -> {}

Handlers == UNION {HandlersAt(p) : p \in ProcessingPaths}

(***************************************************************************)
(* JavaScript numbers, as far as the handlers use them.  parseInt yields   *)
(* an integer or NaN; Number yields a number, kept in tenths so that one   *)
(* fractional digit is exact, or NaN.                                      *)
(***************************************************************************)
NaN == [nan |-> TRUE, n |-> 0]
Num(n) == [nan |-> FALSE, n |-> n]

\* A JavaScript value in a response: a string or a number.  The text of a
\* string is a sequence of characters or, for a message, of pieces.
JStr(s) == [t |-> "string", s |-> s, num |-> NaN]
JNum(v) == [t |-> "number", s |-> <<>>, num |-> v]

IsDigit(c) == c \in {"0", "1", "2", "3", "4", "5", "6", "7", "8", "9"}
DigitVal(c) ==
  CASE c = "0" -> 0 [] c = "1" -> 1 [] c = "2" -> 2 [] c = "3" -> 3 [] c = "4" -> 4
    [] c = "5" -> 5 [] c = "6" -> 6 [] c = "7" -> 7 [] c = "8" -> 8 [] c = "9" -> 9

RECURSIVE DigitsPrefixLen(_)
DigitsPrefixLen(s) ==
  IF s # <<>> /\ IsDigit(Head(s)) THEN 1 + DigitsPrefixLen(Tail(s)) ELSE 0

RECURSIVE DigitsValue(_)
DigitsValue(s) ==
  IF s = <<>> THEN 0
  ELSE 10 * DigitsValue(SubSeq(s, 1, Len(s) - 1)) + DigitVal(s[Len(s)])

RECURSIVE Pow10(_)
Pow10(k) == IF k = 0 THEN 1 ELSE 10 * Pow10(k - 1)

HasSign(s) == s # <<>> /\ Head(s) \in {"+", "-"}
Unsigned(s) == IF HasSign(s) THEN Tail(s) ELSE s
SignOf(s) == IF s # <<>> /\ Head(s) = "-" THEN -1 ELSE 1

\* parseInt(x, 10): leading white space, an optional sign, then the longest
\* prefix of decimal digits; NaN when there is no digit.  undefined and null
\* are first converted to the strings "undefined" and "null".
ParseInt(x) ==
  IF x = Undefined \/ x = Null THEN NaN
  ELSE LET t == TrimStart(x)
           u == Unsigned(t)
           k == DigitsPrefixLen(u)
       IN  IF k = 0 THEN NaN ELSE Num(SignOf(t) * DigitsValue(SubSeq(u, 1, k)))

\* Number(x), in tenths: Number(undefined) is NaN, Number(null) and the
\* Number of a blank string are 0; otherwise the whole trimmed string must be
\* a decimal literal  [sign] digits [. digits] [e [sign] digits].  (Literals
\* with more than one fractional digit, a negative exponent, a radix prefix or
\* Infinity are outside the inputs of the model.)
NumberOf(x) ==
  IF x = Undefined THEN NaN
  ELSE IF x = Null THEN Num(0)
  ELSE LET t  == Trim(x)
           u  == Unsigned(t)
           k1 == DigitsPrefixLen(u)
           r1 == SubSeq(u, k1 + 1, Len(u))
           dot == r1 # <<>> /\ Head(r1) = "."
           f  == IF dot THEN Tail(r1) ELSE r1
           k2 == IF dot THEN DigitsPrefixLen(f) ELSE 0
           r2 == SubSeq(f, k2 + 1, Len(f))
           ex == r2 # <<>> /\ Head(r2) \in {"e", "E"}
           g  == IF ex THEN Unsigned(Tail(r2)) ELSE r2
           k3 == IF ex THEN DigitsPrefixLen(g) ELSE 0
           r3 == SubSeq(g, k3 + 1, Len(g))
           mant == 10 * DigitsValue(SubSeq(u, 1, k1))
                   + (IF k2 > 0 THEN DigitVal(f[1]) ELSE 0)
       IN  IF t = <<>> THEN Num(0)
           ELSE IF k1 + k2 = 0 \/ (ex /\ k3 = 0) \/ r3 # <<>> THEN NaN
           ELSE Num(SignOf(t) * mant * Pow10(DigitsValue(SubSeq(g, 1, k3))))

(***************************************************************************)
(* The parameter validator (utils/response.js).  A validator yields the    *)
(* message of the Error it throws, or "ok".                                *)
(***************************************************************************)
NoFile == Undefined

validMimeTypes == {mJpeg, mPng, mGif, mWebp, mBmp, mTiff, mSvg}

\* validateFile without the check of the MIME type.
validateFile_AnyType(file) ==
  IF file = NoFile
  THEN "No image file provided. Please upload an image using the \"image\" field."
  ELSE "ok"

\* validateFile(file): file is the upload's MIME type, or NoFile.
validateFile(file) ==
  IF file = NoFile
  THEN "No image file provided. Please upload an image using the \"image\" field."
  ELSE IF file \notin validMimeTypes
  THEN "Invalid file type. Supported formats: image/jpeg, image/png, image/gif, image/webp, image/bmp, image/tiff, image/svg+xml"
  ELSE "ok"

\* validateParams(params, required): params is a record of raw values and
\* required a sequence of its field names.
validateParams(params, required) ==
  IF \E i \in 1..Len(required) : Falsy(params[required[i]])
  THEN "Missing required parameters"
  ELSE "ok"

\* validateNumeric(params, keys)
validateNumeric(params, keys) ==
  IF \E i \in 1..Len(keys) :
       /\ params[keys[i]] # Undefined
       /\ params[keys[i]] # Null
       /\ LET value == NumberOf(params[keys[i]]) IN value.nan \/ value.n < 0
  THEN "must be a positive number"
  ELSE "ok"

(***************************************************************************)
(* The temporary file manager (utils/fileHandler.js).                      *)
(***************************************************************************)
mimeMap ==
  [m \in validMimeTypes |->
     CASE m = mJpeg -> sJpg [] m = mPng -> sPng [] m = mGif -> sGif
       [] m = mWebp -> sWebp [] m = mBmp -> sBmp [] m = mTiff -> sTiff
       [] m = mSvg -> sSvg]

\* getExtension(mimeTypeOrFilename)
getExtension(x) ==
  IF Falsy(x) THEN sPng
  ELSE IF Includes(x, ".") THEN ToLowerCase(AfterLast(x, "."))
  ELSE IF x \in DOMAIN mimeMap THEN mimeMap[x]
  ELSE sPng

\* A temp path is TEMP_DIR/<uuid><tail>; generateTempPath gives the tail
\* "." followed by the extension.  NoPath is the handlers' initial null.
NoPath == [uuid |-> 0, tail |-> <<>>]

\* generateTempPath that names the file by a value all requests share (a
\* fixed name, a clock reading of the same tick) instead of a fresh uuid.
generateTempPath_SharedName(uuid, extension) == [uuid |-> 1, tail |-> <<".">> \o extension]

generateTempPath(uuid, extension) == [uuid |-> uuid, tail |-> <<".">> \o extension]

\* inputPath.replace(/\.[^.]+$/, replacement): the regular expression matches
\* a final "." followed by one or more characters that are not "."; a uuid
\* holds no ".", so only the tail can match.
ReplaceExt(path, replacement) ==
  LET t == path.tail
      a == AfterLast(t, ".")
  IN  IF Includes(t, ".") /\ a # <<>>
      THEN [path EXCEPT !.tail = SubSeq(t, 1, Len(t) - Len(a) - 1) \o replacement]
      ELSE path

(***************************************************************************)
(* The global error handler (middleware/errorHandler.js).                  *)
(***************************************************************************)
\* An Error: multer's errors carry a code and the name MulterError; the
\* errors thrown by the handlers and utilities are plain Errors without a
\* statusCode (0 stands for undefined).  `site` records where it was thrown.
\* A message is a sequence of pieces of text.
NoErr == [code |-> "", name |-> "", statusCode |-> 0, site |-> "none", message |-> <<>>]
PlainError(site) ==
  [code |-> "", name |-> "Error", statusCode |-> 0, site |-> site, message |-> <<>>]
MulterError(code) ==
  [code |-> code, name |-> "MulterError", statusCode |-> 0, site |-> "upload",
   message |-> IF code = "LIMIT_FILE_SIZE" THEN <<"File too large">>
               ELSE <<"Unexpected field">>]

\* The pieces of a message that are internal to the server: the command line
\* handed to the shell, what the tool wrote to stderr, a temp-file path.
CommandLine == "<command line>"
Stderr == "<stderr>"
TempPath == "<temp path>"

\* errorHandler without its branch for LIMIT_FILE_SIZE.
errorHandler_NoSizeBranch(err) ==
  IF err.code = "LIMIT_UNEXPECTED_FILE" THEN 400
  ELSE IF err.name = "MulterError" THEN 400
  ELSE IF err.statusCode # 0 THEN err.statusCode ELSE 500

\* The status errorHandler answers with.
errorHandler(err) ==
  IF err.code = "LIMIT_FILE_SIZE" THEN 413
  ELSE IF err.code = "LIMIT_UNEXPECTED_FILE" THEN 400
  ELSE IF err.name = "MulterError" THEN 400
  ELSE IF err.statusCode # 0 THEN err.statusCode ELSE 500

\* errorResponse(message): { success: 0, errormessage: message }
errorResponse(message) ==
  ("success" :> JNum(Num(0))) @@ ("errormessage" :> JStr(message))

\* An error body that passes the Error object itself instead of its message.
errorBody_WholeError(err) ==
  ("success" :> JNum(Num(0))) @@ ("error" :> JStr(err.message))

\* The JSON body errorHandler answers with.
errorBody(err) ==
  IF err.code = "LIMIT_FILE_SIZE"
  THEN errorResponse(<<"File too large. Maximum size is ", "<MAX_FILE_SIZE>", " bytes (50 MB).">>)
  ELSE IF err.code = "LIMIT_UNEXPECTED_FILE"
  THEN errorResponse(<<"Unexpected file field. Please use \"image\" as the field name.">>)
  ELSE IF err.name = "MulterError"
  THEN errorResponse(<<"Upload error: ">> \o err.message)
  ELSE errorResponse(IF err.message = <<>> THEN <<"Internal server error">> ELSE err.message)

(***************************************************************************)
(* The inputs of the model.  A part of a request that the code has not     *)
(* read yet is Unread: it is drawn where the code first reads it.          *)
(***************************************************************************)
Unread == <<"<unread>">>

Tokens == {Undefined, <<" ">>, sT, sBearer \o sT}
AuthHeaders == {Undefined, <<>>, sT, sX, sBearer \o sT, sBearer \o sX, sBearer \o sBearer \o sT}
CleanupDelays == {0, 1}
UploadFiles == {NoFile, mText, mPng, mJpeg}
ResponseModes == {Undefined, <<>>, sBase64, sBinary, sX}

(***************************************************************************)
(* The state.                                                              *)
(***************************************************************************)
VARIABLES
  apiToken,      \* process.env.API_TOKEN
  cleanupDelay,  \* parseInt(process.env.CLEANUP_DELAY || '0', 10)
  serverRev,     \* the revision of server.js that runs
  fsFiles,       \* the paths that exist in the scratch directory
  timers,        \* the deletions scheduled by setTimeout
  req,           \* the request being served
  served,        \* the number of requests received so far
  others         \* the requests that wait at an await while `req` runs

vars == <<apiToken, cleanupDelay, serverRev, fsFiles, timers, req, served, others>>

BodyFields == {"operation", "value", "format", "width", "height", "x", "y", "quality", "mode"}
UnreadBody == [f \in BodyFields |-> Unread]

\* No command has been handed to the external tool.
NoOptions == [option \in {} |-> <<>>]
NoCommand == [tool |-> "none", options |-> NoOptions, format |-> <<>>]

IdleReq ==
  [id |-> 0, pc |-> "idle", method |-> "", path |-> "", authHeader |-> Unread,
   handler |-> "none", upload |-> "unread", file |-> Unread, body |-> UnreadBody,
   responseMode |-> Unread, inputPath |-> NoPath, outputPath |-> NoPath,
   err |-> NoErr, responses |-> <<>>, events |-> <<>>, unlinks |-> <<>>,
   unlinkFailed |-> {}, toolRuns |-> 0, command |-> NoCommand, headers |-> <<>>]

Init ==
  /\ apiToken \in Tokens
  /\ cleanupDelay \in CleanupDelays
  /\ serverRev \in ServerRevs
  /\ fsFiles = {}
  /\ timers = <<>>
  /\ req = IdleReq
  /\ served = 0
  /\ others = {}

Config == <<apiToken, cleanupDelay, serverRev>>

\* res.status(status).json(...) or res.send(...): one response envelope.
\* `json` is the JSON body (when there is one), `headers` the headers the
\* response is sent with.
Response(status, body, by) ==
  [status |-> status, body |-> body, by |-> by, json |-> <<>>, headers |-> <<>>]

\* What res.json and res.send make of the headers set on res (Express):
\* Content-Type becomes application/json only when none is set, the charset
\* is appended to it, and Content-Length is that of the body sent.
resJson(headers) ==
  ("Content-Type" :> (IF "Content-Type" \in DOMAIN headers
                      THEN headers["Content-Type"] ELSE <<"application/json">>)
                       \o <<"; charset=utf-8">>)
    @@ ("Content-Length" :> <<"<length>">>)
    @@ headers

ErrorResponse(status, message, by) ==
  [Response(status, "error", by)
     EXCEPT !.json = errorResponse(message), !.headers = resJson(<<>>)]
Send(r, resp) ==
  [r EXCEPT !.responses = Append(@, resp), !.events = Append(@, "respond")]

(***************************************************************************)
(* A request arrives and runs through the middleware of server.js.         *)
(***************************************************************************)
Receive ==
  /\ req.pc \in {"idle", "done"}
  /\ served < MaxRequests
  /\ \E method \in Methods, path \in Paths :
       req' = [IdleReq EXCEPT !.id = served + 1, !.pc = "preauth",
                              !.method = method, !.path = path]
  /\ served' = served + 1
  /\ UNCHANGED <<Config, others, fsFiles, timers>>

\* The routes mounted before the auth gate.
DocsRoute ==
  /\ req.pc = "preauth"
  /\ IF PreAuthRoute(serverRev, req.method, req.path) = "docs"
     THEN req' = [Send(req, Response(200, "docs", "docs")) EXCEPT !.pc = "done"]
     ELSE req' = [req EXCEPT !.pc = "auth"]
  /\ UNCHANGED <<Config, others, fsFiles, timers, served>>

\* The message the gate answers with.
authMessage(status) ==
  IF status = 401 THEN <<"Authorization header missing. Please provide API token.">>
  ELSE <<"Invalid API token.">>

\* A gate that answers 401 or 403 and calls next() all the same.
AuthGate_NextAfterReject ==
  /\ req.pc = "auth"
  /\ \E h \in (IF TokenConfigured(apiToken) THEN AuthHeaders ELSE {Unread}) :
       LET out == authMiddleware(apiToken, h)
       IN  req' = IF out = 0
                  THEN [req EXCEPT !.pc = "route", !.authHeader = h]
                  ELSE [Send(req, ErrorResponse(out, authMessage(out), "auth"))
                          EXCEPT !.pc = "route", !.authHeader = h]
  /\ UNCHANGED <<Config, others, fsFiles, timers, served>>

\* app.use(authMiddleware).  The header is read only when a token is set.
AuthGate ==
  /\ req.pc = "auth"
  /\ \E h \in (IF TokenConfigured(apiToken) THEN AuthHeaders ELSE {Unread}) :
       LET out == authMiddleware(apiToken, h)
       IN  req' = IF out = 0
                  THEN [req EXCEPT !.pc = "route", !.authHeader = h]
                  ELSE [Send(req, ErrorResponse(out, authMessage(out), "auth"))
                          EXCEPT !.pc = "done", !.authHeader = h]
  /\ UNCHANGED <<Config, others, fsFiles, timers, served>>

\* app.get('/health'), app.get('/'), the routers and the 404 handler.
Dispatch ==
  /\ req.pc = "route"
  /\ LET route == PostAuthRoute(serverRev, req.method, req.path)
     IN  CASE route = "health" ->
                req' = [Send(req, Response(200, "health", "health")) EXCEPT !.pc = "done"]
           [] route = "info" ->
                req' = [Send(req, Response(200, "info", "info")) EXCEPT !.pc = "done"]
           [] route = "notFound" ->
                req' = [Send(req, ErrorResponse(404, <<"Endpoint ", req.method, " ", req.path,
                                                          " not found">>, "notFound"))
                          EXCEPT !.pc = "done"]
           [] route = "router" ->
                \E h \in HandlersAt(req.path) :
                  req' = [req EXCEPT !.pc = "upload", !.handler = h]
  /\ UNCHANGED <<Config, others, fsFiles, timers, served>>

(***************************************************************************)
(* The route handlers (routes/*.js), one definition per step.              *)
(***************************************************************************)
\* The revisions that read responseMode and answer before they clean up;
\* the others answer in base64 only, after cleaning up.
Binary(h) == h \in {"terminal", "resize", "rotate", "crop", "optimize", "optimize_fmt"}

Formats == {Undefined, sPng, sJpg, sX}
ConvertFormats == {Undefined, sPng, sJpg, sJPEG, sWebp, sX}
Qualities == {Undefined, s0, s1, s100, s101, sX, sBlank, s1e3}
Widths == {Undefined, s0, s8, sX}
Heights == {Undefined, s6, sM1}
Operations == {Undefined, sRotate, sFLIP, sX}
Values == {Undefined, s90, sM90, s45, s90x, s90nl, sHorizontal, sX}
Modes == {Undefined, sManual, sTRIM, sX}

\* The body fields a handler reads before it saves the input file.
BodiesFor(h) ==
  CASE h \in {"terminal", "terminal_b64"} -> {UnreadBody}
    [] h = "resize" ->
         {[UnreadBody EXCEPT !.width = w, !.height = hh, !.format = f] :
            w \in Widths, hh \in Heights, f \in Formats}
    [] h = "convert" ->
         {[UnreadBody EXCEPT !.format = f, !.quality = q] :
            f \in ConvertFormats, q \in Qualities}
    [] h \in {"rotate", "rotate_b64"} ->
         {[UnreadBody EXCEPT !.operation = o, !.value = v, !.format = f] :
            o \in Operations, v \in Values, f \in Formats}
    [] h \in {"crop", "crop_b64"} ->
         {[UnreadBody EXCEPT !.mode = m, !.format = f] : m \in Modes, f \in Formats}
    [] h = "optimize" -> {[UnreadBody EXCEPT !.quality = q] : q \in Qualities}
    [] h = "optimize_fmt" ->
         {[UnreadBody EXCEPT !.quality = q, !.format = f] : q \in Qualities, f \in Formats}

\* The first message that is not "ok".
RECURSIVE FirstError(_)
FirstError(checks) ==
  IF checks = <<>> THEN "ok"
  ELSE IF Head(checks) # "ok" THEN Head(checks) ELSE FirstError(Tail(checks))

\* qualityNum < 1 || qualityNum > 100 (false for NaN)
QualityRange(quality) ==
  LET qualityNum == ParseInt(quality)
  IN  IF ~qualityNum.nan /\ (qualityNum.n < 1 \/ qualityNum.n > 100)
      THEN "Quality must be between 1 and 100" ELSE "ok"

validFormats == {sPng, sJpg, sJpeg, sWebp, sGif, sBmp, sTiff, sSvg}

\* What the handler checks between the start of its try block and the call
\* of saveTempFile: the message of the Error thrown, or "ok".
PreSaveValidation(h, file, body) ==
  CASE h \in {"terminal", "terminal_b64"} -> validateFile(file)
    [] h = "resize" ->
         FirstError(<<validateFile(file),
                      validateParams(body, <<"format">>),
                      IF Falsy(body.width) /\ Falsy(body.height)
                      THEN "At least one of width or height must be specified" ELSE "ok",
                      validateNumeric(body, <<"width", "height">>)>>)
    [] h = "convert" ->
         FirstError(<<validateFile(file),
                      validateParams(body, <<"format">>),
                      IF Truthy(body.quality)
                      THEN FirstError(<<validateNumeric(body, <<"quality">>),
                                        QualityRange(body.quality)>>)
                      ELSE "ok",
                      IF ToLowerCase(body.format) \notin validFormats
                      THEN "Invalid format" ELSE "ok">>)
    [] h \in {"rotate", "rotate_b64"} ->
         FirstError(<<validateFile(file),
                      validateParams(body, <<"operation", "value", "format">>),
                      IF ToLowerCase(body.operation) \notin {sRotate, sFlip}
                      THEN "Operation must be rotate or flip" ELSE "ok">>)
    [] h \in {"crop", "crop_b64"} ->
         FirstError(<<validateFile(file),
                      validateParams(body, <<"mode", "format">>),
                      IF ToLowerCase(body.mode) \notin {sManual, sTrim}
                      THEN "Mode must be manual or trim" ELSE "ok">>)
    [] h = "optimize" ->
         FirstError(<<validateFile(file),
                      validateParams(body, <<"quality">>),
                      validateNumeric(body, <<"quality">>),
                      QualityRange(body.quality)>>)
    [] h = "optimize_fmt" ->
         FirstError(<<validateFile(file),
                      validateParams(body, <<"quality", "format">>),
                      validateNumeric(body, <<"quality">>),
                      QualityRange(body.quality)>>)

\* The extension of the output file, as the handler computes it.
OutputExt(h, file, body) ==
  CASE h \in {"terminal", "terminal_b64"} -> sPng
    [] h = "convert" ->
         LET targetFormat == ToLowerCase(body.format)
         IN  IF targetFormat = sJpeg THEN sJpg ELSE targetFormat
    [] h = "optimize" -> getExtension(file)
    [] OTHER -> getExtension(body.format)

\* The output path: the input path with its extension replaced.
OutputPath(h, inputPath, file, body) ==
  LET suffix ==
        CASE h \in {"terminal", "terminal_b64"} -> sOut
          [] h = "resize" -> sResized
          [] h = "convert" -> sConverted
          [] h \in {"rotate", "rotate_b64"} -> <<"_">> \o ToLowerCase(body.operation)
          [] h \in {"crop", "crop_b64"} -> sCropped
          [] h \in {"optimize", "optimize_fmt"} -> sOptimized
  IN  ReplaceExt(inputPath, suffix \o <<".">> \o OutputExt(h, file, body))

\* The manual-crop fields, read when the crop mode is manual.
CropFields ==
  {[width |-> w, height |-> hh, x |-> x, y |-> y] :
     w \in {Undefined, s5, sX}, hh \in {Undefined, s5}, x \in {Undefined, s0}, y \in {s0, sM1}}

\* A JavaScript number used as a condition: 0 and NaN are falsy.
TruthyNum(v) == ~v.nan /\ v.n # 0

\* What the handler (or the utility it calls) checks after the input file
\* is saved and before the external tool runs.
LateValidation(h, body) ==
  CASE h \in {"rotate", "rotate_b64"} ->
         IF ToLowerCase(body.operation) = sRotate
         THEN LET degrees == ParseInt(body.value)
              IN  IF degrees.nan \/ degrees.n \notin {90, 180, 270, -90, -180, -270}
                  THEN "Rotation degrees must be 90, 180, or 270" ELSE "ok"
         ELSE IF ToLowerCase(body.value) \notin {sHorizontal, sVertical}
              THEN "Flip direction must be horizontal or vertical" ELSE "ok"
    [] h \in {"crop", "crop_b64"} ->
         IF ToLowerCase(body.mode) = sManual
         THEN FirstError(<<validateParams(body, <<"width", "height", "x", "y">>),
                           validateNumeric(body, <<"width", "height", "x", "y">>)>>)
         ELSE "ok"
    [] h = "resize" ->
         LET targetWidth  == IF Truthy(body.width) THEN ParseInt(body.width) ELSE Num(0)
             targetHeight == IF Truthy(body.height) THEN ParseInt(body.height) ELSE Num(0)
         IN  IF ~TruthyNum(targetWidth) /\ ~TruthyNum(targetHeight)
             THEN "At least width or height must be specified" ELSE "ok"
    [] OTHER -> "ok"

\* Where a late check throws: in the route handler, or in resizeImage.
LateSite(h) == IF h = "resize" THEN "resizeImage" ELSE "validation"

(***************************************************************************)
(* The success responses (utils/response.js and the handlers' calls).      *)
(***************************************************************************)
sAuto == <<"a", "u", "t", "o">>
sDefault == <<"d", "e", "f", "a", "u", "l", "t">>
sTerminalDithering == <<"t", "e", "r", "m", "i", "n", "a", "l", "-", "d", "i", "t", "h", "e", "r", "i", "n", "g">>

DigitChar(d) ==
  CASE d = 0 -> "0" [] d = 1 -> "1" [] d = 2 -> "2" [] d = 3 -> "3" [] d = 4 -> "4"
    [] d = 5 -> "5" [] d = 6 -> "6" [] d = 7 -> "7" [] d = 8 -> "8" [] d = 9 -> "9"

RECURSIVE NatToString(_)
NatToString(n) ==
  IF n < 10 THEN <<DigitChar(n)>> ELSE NatToString(n \div 10) \o <<DigitChar(n % 10)>>

\* String(v), as binaryResponse applies it to a metadata value.
String(v) ==
  IF v.t = "string" THEN v.s
  ELSE IF v.num.nan THEN <<"N", "a", "N">>
  ELSE IF v.num.n < 0 THEN <<"-">> \o NatToString(-v.num.n)
  ELSE NatToString(v.num.n)

\* `n || fallback` for a number n or null.
NumOr(v, fallback) == IF TruthyNum(v) THEN JNum(v) ELSE JStr(fallback)

\* `x ? parseInt(x, 10) : null`; null behaves as 0 where the code uses it.
ParseIntOrNull(x) == IF Truthy(x) THEN ParseInt(x) ELSE Num(0)

\* getMimeType(format) of utils/fileHandler.js: the MIME type for an output
\* format.  Extensions without a MIME type of the allow-list are outside it.
getMimeType(ext) ==
  CASE ext \in {sJpg, sJpeg} -> mJpeg [] ext = sPng -> mPng [] ext = sGif -> mGif
    [] ext = sWebp -> mWebp [] ext = sBmp -> mBmp [] ext = sTiff -> mTiff
    [] ext = sSvg -> mSvg [] OTHER -> <<"?">>

\* The metadata object a handler builds for its success response (without
\* the mimetype field that some revisions add in base64 mode).
Metadata(h, file, body) ==
  LET outputExt == OutputExt(h, file, body)
      format == "format" :> JStr(outputExt)
  IN  CASE h \in {"terminal", "terminal_b64"} ->
             format @@ ("effect" :> JStr(sTerminalDithering))
        [] h = "resize" ->
             format @@ ("width" :> NumOr(ParseIntOrNull(body.width), sAuto))
                    @@ ("height" :> NumOr(ParseIntOrNull(body.height), sAuto))
        [] h = "convert" ->
             format @@ ("quality" :> NumOr(ParseIntOrNull(body.quality), sDefault))
        [] h \in {"rotate", "rotate_b64"} ->
             format @@ ("operation" :> JStr(ToLowerCase(body.operation)))
                    @@ ("value" :> JStr(body.value))
        [] h \in {"crop", "crop_b64"} ->
             format @@ ("mode" :> JStr(ToLowerCase(body.mode)))
                    @@ (IF ToLowerCase(body.mode) = sManual
                        THEN ("width" :> JNum(ParseInt(body.width)))
                               @@ ("height" :> JNum(ParseInt(body.height)))
                               @@ ("x" :> JNum(ParseInt(body.x)))
                               @@ ("y" :> JNum(ParseInt(body.y)))
                        ELSE <<>>)
        [] h \in {"optimize", "optimize_fmt"} ->
             format @@ ("quality" :> JNum(ParseInt(body.quality)))

\* The revisions whose base64 envelope carries a mimetype field.
SendsMimetype(h) == h \in {"terminal", "resize", "rotate", "crop", "optimize"}

\* successResponse(base64Image, metadata): { success: 1, image, ...metadata }
successResponse(base64Image, metadata) ==
  metadata @@ ("success" :> JNum(Num(1))) @@ ("image" :> JStr(base64Image))

\* The JSON envelope of a handler's base64 response.
SuccessJson(h, file, body) ==
  successResponse(<<"<base64>">>,
                  IF SendsMimetype(h)
                  THEN ("mimetype" :> JStr(getMimeType(OutputExt(h, file, body))))
                         @@ Metadata(h, file, body)
                  ELSE Metadata(h, file, body))

\* key.charAt(0).toUpperCase() + key.slice(1), on the metadata keys.
Capitalise(key) ==
  CASE key = "format" -> "Format" [] key = "effect" -> "Effect"
    [] key = "width" -> "Width" [] key = "height" -> "Height"
    [] key = "quality" -> "Quality" [] key = "operation" -> "Operation"
    [] key = "value" -> "Value" [] key = "mode" -> "Mode"
    [] key = "x" -> "X" [] key = "y" -> "Y"
    [] key = "mimetype" -> "Mimetype" [] key = "success" -> "Success"

\* The name of the file in the Content-Disposition header.
Filename(h, body, ext) ==
  CASE h = "terminal" -> <<"terminal-dithered.png">>
    [] h = "resize" -> <<"resized.">> \o ext
    [] h = "rotate" -> ToLowerCase(body.operation) \o <<".">> \o ext
    [] h = "crop" -> <<"cropped.">> \o ext
    [] OTHER -> <<"optimized.">> \o ext

\* binaryResponse(res, imageBuffer, metadata, format, filename): the headers
\* it sets.
binaryResponse(metadata, format, filename) ==
  LET mimeType == getMimeType(format)
  IN  [k \in {"X-Image-" \o Capitalise(key) : key \in DOMAIN metadata} |->
         String(metadata[CHOOSE key \in DOMAIN metadata : "X-Image-" \o Capitalise(key) = k])]
      @@ ("X-Image-Success" :> <<"1">>)
      @@ ("X-Image-Mimetype" :> mimeType)
      @@ ("Content-Type" :> mimeType)
      @@ ("Content-Length" :> <<"<length>">>)
      @@ ("Content-Disposition" :> <<"attachment; filename=\"">> \o filename \o <<"\"">>)

\* The headers of a handler's binary response.
BinaryHeaders(h, file, body) ==
  binaryResponse(Metadata(h, file, body), OutputExt(h, file, body),
                 Filename(h, body, OutputExt(h, file, body)))

\* Object.keys(metadata): the keys in the order the handler wrote them.
MetadataKeys(h, body) ==
  CASE h \in {"terminal", "terminal_b64"} -> <<"format", "effect">>
    [] h = "resize" -> <<"format", "width", "height">>
    [] h = "convert" -> <<"format", "quality">>
    [] h \in {"rotate", "rotate_b64"} -> <<"format", "operation", "value">>
    [] h \in {"crop", "crop_b64"} ->
         <<"format", "mode">> \o (IF ToLowerCase(body.mode) = sManual
                                  THEN <<"width", "height", "x", "y">> ELSE <<>>)
    [] h \in {"optimize", "optimize_fmt"} -> <<"format", "quality">>

\* The names of the headers in the order binaryResponse sets them.
setHeaderNames(keys) ==
  <<"Content-Type", "Content-Length", "Content-Disposition",
    "X-Image-Success", "X-Image-Mimetype">>
    \o [i \in 1..Len(keys) |-> "X-Image-" \o Capitalise(keys[i])]

\* res.setHeader(name, value) throws ERR_INVALID_CHAR for a value with a
\* character outside tab, 0x20-0x7e and 0x80-0xff; of the characters of the
\* model's inputs that is the line feed.
LegalHeaderValue(value) == \A i \in 1..Len(value) : value[i] # "\n"

\* The number of setHeader calls of binaryResponse that succeed: all of
\* them, or those before the first value that is refused.
HeadersSet(names, headers) ==
  IF \A i \in 1..Len(names) : LegalHeaderValue(headers[names[i]]) THEN Len(names)
  ELSE (CHOOSE i \in 1..Len(names) :
          /\ ~LegalHeaderValue(headers[names[i]])
          /\ \A j \in 1..(i - 1) : LegalHeaderValue(headers[names[j]])) - 1

\* The headers that are set on res when binaryResponse has thrown.
HeadersLeft(names, headers) ==
  [name \in {names[i] : i \in 1..HeadersSet(names, headers)} |-> headers[name]]

(***************************************************************************)
(* The commands handed to the external tool (utils/imagemagick.js).  A     *)
(* command is the function that built it, its options with their           *)
(* arguments, and the format prefix of the output ("format:path").         *)
(***************************************************************************)
Flag == <<>>

\* The number as the template string `${n}` writes it.
Interpolate(v) == String(JNum(v))

\* resizeImage(inputPath, outputPath, width, height, format): the geometry.
\* It is called only with a truthy width or height.
resizeGeometry(width, height) ==
  IF TruthyNum(width) /\ TruthyNum(height)
  THEN Interpolate(width) \o <<"x">> \o Interpolate(height) \o <<"!">>
  ELSE IF TruthyNum(width) THEN Interpolate(width) \o <<"x">>
  ELSE <<"x">> \o Interpolate(height)

\* convertFormat that passes every quality that is not null.
convertFormat_AlwaysQuality(format, isNull, quality) ==
  [tool |-> "convertFormat",
   options |-> IF ~isNull THEN "-quality" :> Interpolate(quality) ELSE NoOptions,
   format |-> format]

\* convertFormat(inputPath, outputPath, format, quality): quality is null
\* (isNull) or a number.
convertFormat(format, isNull, quality) ==
  [tool |-> "convertFormat",
   options |-> IF ~isNull /\ format \in {sJpg, sJpeg, sWebp}
               THEN "-quality" :> Interpolate(quality) ELSE NoOptions,
   format |-> format]

\* The command of each handler, from the request's body.
ToolCommand(h, file, body) ==
  CASE h \in {"terminal", "terminal_b64"} ->
         [tool |-> "terminalDither",
          options |-> ("-contrast-stretch" :> <<"0x10%">>) @@ ("-sharpen" :> <<"0x1">>)
                        @@ ("-dither" :> <<"FloydSteinberg">>)
                        @@ ("-remap" :> <<"pattern:gray50">>)
                        @@ ("-depth" :> <<"1">>) @@ ("-strip" :> Flag),
          format |-> sPng]
    [] h = "resize" ->
         [tool |-> "resizeImage",
          options |-> "-resize" :> resizeGeometry(ParseIntOrNull(body.width),
                                                  ParseIntOrNull(body.height)),
          format |-> body.format]
    [] h = "convert" ->
         convertFormat(ToLowerCase(body.format), Falsy(body.quality), ParseInt(body.quality))
    [] h \in {"rotate", "rotate_b64"} ->
         IF ToLowerCase(body.operation) = sRotate
         THEN [tool |-> "rotateImage",
               options |-> "-rotate" :> Interpolate(ParseInt(body.value)),
               format |-> body.format]
         ELSE [tool |-> "flipImage",
               options |-> (IF ToLowerCase(body.value) = sHorizontal THEN "-flop" ELSE "-flip")
                             :> Flag,
               format |-> body.format]
    [] h \in {"crop", "crop_b64"} ->
         IF ToLowerCase(body.mode) = sManual
         THEN [tool |-> "cropImage",
               options |-> ("-crop" :> Interpolate(ParseInt(body.width)) \o <<"x">>
                                        \o Interpolate(ParseInt(body.height)) \o <<"+">>
                                        \o Interpolate(ParseInt(body.x)) \o <<"+">>
                                        \o Interpolate(ParseInt(body.y)))
                             @@ ("+repage" :> Flag),
               format |-> body.format]
         ELSE [tool |-> "trimImage",
               options |-> ("-trim" :> Flag) @@ ("+repage" :> Flag),
               format |-> body.format]
    [] h \in {"optimize", "optimize_fmt"} ->
         [tool |-> "optimizeImage",
          options |-> ("-strip" :> Flag) @@ ("-quality" :> Interpolate(ParseInt(body.quality))),
          format |-> IF h = "optimize" THEN getExtension(file) ELSE body.format]

(***************************************************************************)
(* The handler's steps.                                                    *)
(***************************************************************************)
\* A catch block that cleans up nothing and forgets next(error).
Throw_Swallowed(r, site) == [r EXCEPT !.pc = "done", !.err = PlainError(site)]

\* An Error thrown inside the try block: control passes to the catch block.
Throw(r, site) == [r EXCEPT !.pc = "catch", !.err = PlainError(site)]

\* throw new Error(message)
Thrown(r, site, message) == [Throw(r, site) EXCEPT !.err.message = message]

\* error.message of a failed child_process.exec: "Command failed: ", the
\* command line and what the tool wrote to stderr; executeCommand prefixes it.
execMessage == <<"ImageMagick command failed: ", "Command failed: ", CommandLine, "\n", Stderr>>

\* The message of a failed fs call that names the file (open) or does not
\* (write).
fsMessage(syscall) ==
  IF syscall = "open" THEN <<"ENOENT: no such file or directory, open '", TempPath, "'">>
  ELSE <<"ENOSPC: no space left on device, write">>

\* The file part of the multipart body: none, one in a field other than
\* "image", or one in the field "image" whose size is within or over
\* limits.fileSize (MAX_FILE_SIZE).
Uploads == {"none", "otherField", "withinLimit", "overLimit"}

\* upload.single('image'): multer keeps the upload in memory (req.file), or
\* fails with a MulterError that goes to the error handler.
multerSingle(upload) ==
  CASE upload = "otherField" -> "LIMIT_UNEXPECTED_FILE"
    [] upload = "overLimit" -> "LIMIT_FILE_SIZE"
    [] OTHER -> "ok"

Upload ==
  /\ req.pc = "upload"
  /\ \E upload \in Uploads :
       IF multerSingle(upload) # "ok"
       THEN req' = [req EXCEPT !.pc = "errorHandler", !.upload = upload,
                               !.err = MulterError(multerSingle(upload))]
       ELSE \E file \in (IF upload = "none" THEN {NoFile} ELSE UploadFiles \ {NoFile}) :
              req' = [req EXCEPT !.pc = "validate", !.upload = upload, !.file = file]
  /\ UNCHANGED <<Config, others, fsFiles, timers, served>>

\* From the start of the try block to the call of saveTempFile.
Validate ==
  /\ req.pc = "validate"
  /\ \E body \in (IF validateFile(req.file) = "ok" THEN BodiesFor(req.handler) ELSE {UnreadBody}) :
     \E message \in {PreSaveValidation(req.handler, req.file, body)} :
       req' = IF message = "ok"
              THEN [req EXCEPT !.pc = "save", !.body = body]
              ELSE Thrown([req EXCEPT !.body = body], "validation", <<message>>)
  /\ UNCHANGED <<Config, others, fsFiles, timers, served>>

\* uuidv4(): a fresh identifier for every file saved.  A request saves one
\* file, so the number of the request stands for the identifier.
NewUuid == req.id

\* saveTempFile(buffer, extension), then the computation of the output path.
\* ensureTempDir or fs.writeFile may fail; a failed writeFile may already
\* have created the file, and the path is then never assigned.
SaveInput ==
  /\ req.pc = "save"
  /\ LET filePath == generateTempPath(NewUuid, getExtension(req.file))
     IN  \/ /\ fsFiles' = fsFiles \cup {filePath}
            /\ req' = [req EXCEPT !.pc = "transform",
                                  !.inputPath = filePath,
                                  !.outputPath = OutputPath(req.handler, filePath, req.file, req.body),
                                  !.events = Append(@, "write")]
         \/ /\ fsFiles' = fsFiles
            /\ req' = Thrown(req, "saveTempFile", fsMessage("open"))
         \/ /\ fsFiles' = fsFiles \cup {filePath}
            /\ req' = Thrown(req, "saveTempFile", fsMessage("write"))
  /\ UNCHANGED <<Config, others, timers, served>>

\* A handler that runs the tool a second time after the first run.
Transform_Retry ==
  /\ req.pc = "transform"
  /\ req' = [req EXCEPT !.toolRuns = @ + 1, !.events = Append(@, "transform"),
                        !.pc = IF req.toolRuns = 0 THEN "transform" ELSE "read"]
  /\ fsFiles' = fsFiles \cup {req.outputPath}
  /\ UNCHANGED <<Config, others, timers, served>>

\* The late checks, then the external tool (executeCommand).  A failed tool
\* run may or may not have left an output file.
Transform ==
  /\ req.pc = "transform"
  /\ \E body \in (IF req.handler \in {"crop", "crop_b64"} /\ ToLowerCase(req.body.mode) = sManual
                  THEN {[req.body EXCEPT !.width = c.width, !.height = c.height,
                                         !.x = c.x, !.y = c.y] : c \in CropFields}
                  ELSE {req.body}) :
     \E message \in {LateValidation(req.handler, body)},
        command \in {ToolCommand(req.handler, req.file, body)} :
       LET ran == [req EXCEPT !.body = body, !.toolRuns = @ + 1,
                              !.command = command,
                              !.events = Append(@, "transform")]
       IN  IF message # "ok"
           THEN /\ req' = Thrown([req EXCEPT !.body = body], LateSite(req.handler), <<message>>)
                /\ fsFiles' = fsFiles
           ELSE \/ /\ fsFiles' = fsFiles \cup {req.outputPath}
                   /\ req' = [ran EXCEPT !.pc = "read"]
                \/ /\ fsFiles' \in {fsFiles, fsFiles \cup {req.outputPath}}
                   /\ req' = Thrown(ran, "executeCommand", execMessage)
  /\ UNCHANGED <<Config, others, timers, served>>

\* req.query.responseMode || 'base64'
EffectiveMode(responseMode) == IF Falsy(responseMode) THEN sBase64 ELSE responseMode

\* The check of responseMode (the revisions that read it), then the read of
\* the output file (fs.readFile or readFileAsBase64), which may fail.
ReadOutput ==
  /\ req.pc = "read"
  /\ \E m \in (IF Binary(req.handler) THEN ResponseModes ELSE {Unread}) :
       IF Binary(req.handler) /\ EffectiveMode(m) \notin {sBase64, sBinary}
       THEN req' = Thrown([req EXCEPT !.responseMode = m], "responseMode",
                          <<"responseMode must be \"base64\" or \"binary\"">>)
       ELSE \/ req' = [req EXCEPT !.responseMode = m,
                                  !.events = Append(@, "read"),
                                  !.pc = IF Binary(req.handler) THEN "respond" ELSE "cleanup"]
            \/ req' = Thrown([req EXCEPT !.responseMode = m], "readFile", fsMessage("open"))
  /\ UNCHANGED <<Config, others, fsFiles, timers, served>>

\* The shape of the success response: binaryResponse or res.json.
SuccessBody(h, responseMode) ==
  IF Binary(h) /\ EffectiveMode(responseMode) = sBinary THEN "binary" ELSE "success"

\* The success response of a handler.
SuccessResponse(h, file, body, responseMode) ==
  IF SuccessBody(h, responseMode) = "binary"
  THEN [Response(200, "binary", "handler") EXCEPT !.headers = BinaryHeaders(h, file, body)]
  ELSE [Response(200, "success", "handler")
          EXCEPT !.json = SuccessJson(h, file, body), !.headers = resJson(<<>>)]

\* binaryResponse(...) or res.json(successResponse(...)); building the
\* response may throw before anything is sent, and binaryResponse throws at
\* the first header value that setHeader refuses: the headers set before it
\* stay on res.  A base64-only revision never reads responseMode: what the
\* request carried is drawn here.
Respond ==
  /\ req.pc = "respond"
  /\ \E m \in (IF Binary(req.handler) THEN {req.responseMode} ELSE ResponseModes) :
     \E response \in {SuccessResponse(req.handler, req.file, req.body, m)},
        names \in {IF SuccessBody(req.handler, m) = "binary"
                   THEN setHeaderNames(MetadataKeys(req.handler, req.body)) ELSE <<>>} :
       LET r == [req EXCEPT !.responseMode = m]
       IN  \/ /\ HeadersSet(names, response.headers) = Len(names)
              /\ req' = [Send(r, response)
                           EXCEPT !.pc = IF Binary(req.handler) THEN "cleanup" ELSE "done"]
           \/ /\ HeadersSet(names, response.headers) < Len(names)
              /\ req' = Thrown([r EXCEPT !.headers = HeadersLeft(names, response.headers)],
                               "setHeader", <<"Invalid character in header content">>)
           \/ req' = Thrown(r, "respond",
                            <<"Cannot create a string longer than 0x1fffffe8 characters">>)
  /\ UNCHANGED <<Config, others, fsFiles, timers, served>>

\* The members of a sequence.
Range(q) == {q[i] : i \in 1..Len(q)}

\* cleanupFiles whose deleteFile lets a failed fs.unlink escape: the loop
\* stops at the first path and the error goes to the error handler.
cleanupFiles_Surfacing(r, filePaths) ==
  /\ timers' = timers
  /\ \E failed \in SUBSET (Range(filePaths) \cap fsFiles) :
       IF failed = {}
       THEN /\ fsFiles' = fsFiles \ Range(filePaths)
            /\ req' = [r EXCEPT !.unlinks = @ \o filePaths, !.events = Append(@, "cleanup")]
       ELSE /\ fsFiles' = fsFiles
            /\ req' = [r EXCEPT !.unlinks = Append(@, Head(filePaths)),
                                !.unlinkFailed = @ \cup failed,
                                !.err = PlainError("deleteFile"),
                                !.pc = "errorHandler"]

\* cleanupFiles(filePaths): deleteFile on every path in turn.  With a delay
\* the deletion is scheduled; without, fs.unlink runs now and a failure is
\* only logged (the file then stays).
cleanupFiles(r, filePaths) ==
  IF cleanupDelay > 0
     THEN /\ timers' = timers \o filePaths
          /\ fsFiles' = fsFiles
          /\ req' = [r EXCEPT !.unlinks = @ \o filePaths, !.events = Append(@, "cleanup")]
     ELSE /\ timers' = timers
          /\ \E failed \in SUBSET (Range(filePaths) \cap fsFiles) :
               /\ fsFiles' = fsFiles \ (Range(filePaths) \ failed)
               /\ req' = [r EXCEPT !.unlinks = @ \o filePaths,
                                   !.unlinkFailed = @ \cup failed,
                                   !.events = Append(@, "cleanup")]

\* await cleanupFiles([inputPath, outputPath]) on the way to success.
Cleanup ==
  /\ req.pc = "cleanup"
  /\ cleanupFiles([req EXCEPT !.pc = IF Binary(req.handler) THEN "done" ELSE "respond"],
                  <<req.inputPath, req.outputPath>>)
  /\ UNCHANGED <<Config, others, served>>

\* [inputPath, outputPath].filter(Boolean)
FilterBoolean(paths) == SelectSeq(paths, LAMBDA pth : pth # NoPath)

\* The catch block: cleanup of the assigned paths, then next(error).
Catch ==
  /\ req.pc = "catch"
  /\ IF req.inputPath # NoPath \/ req.outputPath # NoPath
     THEN cleanupFiles([req EXCEPT !.pc = "errorHandler"],
                       FilterBoolean(<<req.inputPath, req.outputPath>>))
     ELSE /\ req' = [req EXCEPT !.pc = "errorHandler"]
          /\ UNCHANGED <<fsFiles, timers>>
  /\ UNCHANGED <<Config, others, served>>

\* app.use(errorHandler)
ErrorHandler ==
  /\ req.pc = "errorHandler"
  /\ req' = [Send(req, [Response(errorHandler(req.err), "error", "errorHandler")
                           EXCEPT !.json = errorBody(req.err),
                                  !.headers = resJson(req.headers)])
               EXCEPT !.pc = "done"]
  /\ UNCHANGED <<Config, others, fsFiles, timers, served>>

\* A scheduled doDelete runs: fs.unlink, a failure is only logged.
TimerFire ==
  /\ timers # <<>>
  /\ timers' = Tail(timers)
  /\ fsFiles' \in {fsFiles \ {Head(timers)}, fsFiles}
  /\ UNCHANGED <<Config, others, req, served>>

\* The steps of the request in flight.
RequestStep ==
  \/ DocsRoute
  \/ AuthGate
  \/ Dispatch
  \/ Upload
  \/ Validate
  \/ SaveInput
  \/ Transform
  \/ ReadOutput
  \/ Respond
  \/ Cleanup
  \/ Catch
  \/ ErrorHandler

Next ==
  \/ Receive
  \/ RequestStep
  \/ TimerFire

Spec == Init /\ [][Next]_vars

(***************************************************************************)
(* Requests in flight together.  Node runs one handler at a time and       *)
(* switches at an await: `req` is the request that runs, `others` are the  *)
(* requests suspended at an await (or completed).  The steps before        *)
(* saveTempFile touch nothing that requests share, so a request enters     *)
(* here as /terminal has received it: uploaded, not yet validated.         *)
(***************************************************************************)
MaxInFlight == 2

\* The handlers and uploads of the requests in flight together.
ConcurrentHandlers == {"terminal_b64"}
ConcurrentFiles == {mPng}

InitC ==
  /\ apiToken = Undefined
  /\ cleanupDelay \in CleanupDelays
  /\ serverRev = 2
  /\ fsFiles = {}
  /\ timers = <<>>
  /\ req = IdleReq
  /\ served = 0
  /\ others = {}

\* The process runs (process.exit has not been called).
Running == req.pc # "exited"

\* A request arrives while the requests before it are in flight: the one
\* that ran waits at its await.
Arrive ==
  /\ Running
  /\ served < MaxInFlight
  /\ served' = served + 1
  /\ others' = IF req.pc = "idle" THEN others ELSE others \cup {req}
  /\ \E h \in ConcurrentHandlers, file \in ConcurrentFiles :
       req' = [IdleReq EXCEPT !.id = served + 1, !.pc = "validate", !.method = "POST",
                              !.path = "/terminal", !.handler = h,
                              !.upload = "withinLimit", !.file = file]
  /\ UNCHANGED <<Config, fsFiles, timers>>

\* The request that runs reaches an await (or its end) and the event loop
\* resumes a suspended request.
Yield ==
  /\ Running
  /\ \E o \in others :
       /\ o.pc # "done"
       /\ req' = o
       /\ others' = (others \ {o}) \cup {req}
  /\ UNCHANGED <<Config, fsFiles, timers, served>>

\* process.on('SIGTERM' | 'SIGINT'): process.exit(0).  The handlers in
\* flight and the timers not yet fired are gone; the files stay.
Shutdown ==
  /\ Running
  /\ req' = [req EXCEPT !.pc = "exited"]
  /\ others' = {[o EXCEPT !.pc = "exited"] : o \in others}
  /\ timers' = <<>>
  /\ served' = MaxInFlight
  /\ UNCHANGED <<Config, fsFiles>>

\* The steps of the handler that runs.
HandlerStep ==
  \/ Validate
  \/ SaveInput
  \/ Transform
  \/ ReadOutput
  \/ Respond
  \/ Cleanup
  \/ Catch
  \/ ErrorHandler

NextC ==
  \/ Arrive
  \/ Yield
  \/ HandlerStep
  \/ TimerFire
  \/ Shutdown

\* The event loop runs every continuation that is ready and every timer
\* that is due; nothing obliges a request to arrive or the process to be
\* signalled.
SpecC ==
  /\ InitC
  /\ [][NextC]_vars
  /\ WF_vars(HandlerStep)
  /\ WF_vars(Yield)
  /\ WF_vars(TimerFire)

(***************************************************************************)
(* Vocabulary of the properties.                                           *)
(***************************************************************************)
Done == req.pc = "done"
Processing == req.handler # "none"
TheResponse == req.responses[1]

\* The temp files of the request in flight that exist.
OwnFiles == {f \in fsFiles : f.uuid = served}
\* The temp paths the handler has assigned.
Assigned == {req.inputPath, req.outputPath} \ {NoPath}
\* How often deleteFile was called on a path.
DeleteCalls(pth) == Cardinality({i \in 1..Len(req.unlinks) : req.unlinks[i] = pth})

\* The errors by which a handler rejects the request's file or parameters.
ValidationSites == {"validation", "responseMode"}

\* C1: with cleanup delay 0, a processing request that has completed leaves
\* no temp file of its own in the scratch directory, wherever it failed
\* (deletions that themselves fail set aside).
C1_NoTempFileLeft ==
  (Done /\ Processing /\ cleanupDelay = 0 /\ req.unlinkFailed = {}) => OwnFiles = {}

\* C2: a completed request has called the deletion of each assigned temp
\* path exactly once, and of no other path.
C2_DeleteExactlyOnce ==
  (Done /\ Processing) =>
     /\ \A pth \in Assigned : DeleteCalls(pth) = 1
     /\ Range(req.unlinks) \subseteq Assigned

StepRank(e) ==
  CASE e = "write" -> 1 [] e = "transform" -> 2 [] e = "read" -> 3
    [] e = "respond" -> 4 [] e = "cleanup" -> 5

\* C3: the steps of a request that has met no error happen in the order
\* write, transform, read, respond, cleanup.
C3_StepOrder ==
  req.err = NoErr =>
     \A i, j \in 1..Len(req.events) :
        i < j => StepRank(req.events[i]) < StepRank(req.events[j])

\* C4: a request never has more than one response, a completed request has
\* exactly one, and a request that is not completed can take a step.
C4_ExactlyOneResponse ==
  /\ Len(req.responses) <= 1
  /\ Done => Len(req.responses) = 1
  /\ req.pc \notin {"idle", "done"} => ENABLED RequestStep

\* C4's case: the handler failed while building the success response, and
\* the request completed with the one error response.
C4_Witness ==
  /\ Done /\ req.err.site = "respond"
  /\ Len(req.responses) = 1 /\ TheResponse.body = "error"

\* C5: when a request is rejected by a validation error, no temp file has
\* been written and the external tool has not run.
C5_ValidationBeforeIO ==
  req.err.site \in ValidationSites =>
     /\ req.inputPath = NoPath /\ req.outputPath = NoPath
     /\ "write" \notin Range(req.events)
     /\ req.toolRuns = 0

\* C6: a request that fails validation is answered with status 400 and the
\* error envelope.
C6_ValidationIs400 ==
  (Done /\ req.err.site \in ValidationSites) =>
     TheResponse.status = 400 /\ TheResponse.body = "error"

\* The gate has run on the request (the routes before it did not answer).
GateRan ==
  /\ req.pc \notin {"idle", "preauth", "auth"}
  /\ PreAuthRoute(serverRev, req.method, req.path) = "none"
\* The gate answered the request itself.
RejectedByGate == Len(req.responses) = 1 /\ TheResponse.by = "auth"
\* Nothing behind the gate has touched the request.
NoHandlerReached ==
  /\ req.handler = "none" /\ req.file = Unread
  /\ req.events = <<"respond">> /\ req.toolRuns = 0

\* An Authorization header as the claims read it: the value itself or the
\* value without one leading "Bearer " equals the token.
BareOrBearerMatch(h, token) ==
  \/ h = token
  \/ /\ Len(h) >= 7
     /\ SubSeq(h, 1, 7) = sBearer
     /\ SubSeq(h, 8, Len(h)) = token

\* The header's value without its leading "Bearer ", when it has one.
Credential(h) ==
  IF Len(h) >= 7 /\ SubSeq(h, 1, 7) = sBearer THEN SubSeq(h, 8, Len(h)) ELSE h

IsDocsRoute == PreAuthRoute(serverRev, req.method, req.path) = "docs"
IsHealthRoute == req.method = "GET" /\ req.path = "/health"

\* C8: with a token configured, the health check and the docs are served
\* whatever the Authorization header, and every other route answers 401 to
\* a request without one.
C8_HealthAndDocsOpen ==
  (Done /\ TokenConfigured(apiToken)) =>
     /\ IsDocsRoute => TheResponse.by = "docs" /\ TheResponse.status = 200
     /\ (IsHealthRoute /\ ~IsDocsRoute) =>
          TheResponse.by = "health" /\ TheResponse.status = 200
     /\ (~IsDocsRoute /\ ~IsHealthRoute /\ req.authHeader = Undefined) =>
          RejectedByGate /\ TheResponse.status = 401

\* C9: the gate lets a request through exactly when no token is configured
\* or the header, bare or without one leading "Bearer ", equals the token.
C9_Original ==
  GateRan =>
     (~RejectedByGate <=>
        \/ ~TokenConfigured(apiToken)
        \/ BareOrBearerMatch(req.authHeader, apiToken))

\* C10: a handler's success response is the JSON envelope when responseMode
\* is absent (or empty) or "base64" and the raw bytes when it is "binary";
\* with any other value the handler sends no success response.
C10_ModeSelectsShape ==
  (Done /\ Processing /\ req.responseMode # Unread /\ TheResponse.by = "handler") =>
     \/ Falsy(req.responseMode) /\ TheResponse.body = "success"
     \/ req.responseMode = sBase64 /\ TheResponse.body = "success"
     \/ req.responseMode = sBinary /\ TheResponse.body = "binary"

\* The handler has sent its success response.
Succeeded ==
  Processing /\ Len(req.responses) = 1 /\ TheResponse.by = "handler"

\* The metadata a base64 envelope carries, named and written as the binary
\* response's headers name and write it.
MetaOfJson(json) ==
  {<<"X-Image-" \o Capitalise(key), String(json[key])>> : key \in DOMAIN json \ {"image"}}
\* The metadata the X-Image-* headers carry.
MetaOfHeaders(headers) ==
  {<<name, headers[name]>> :
     name \in DOMAIN headers \ {"Content-Type", "Content-Length", "Content-Disposition"}}

\* C11: the metadata of a handler's success response, in either mode, is the
\* metadata the same handler carries for the same request in the other mode.
C11_SameMetadata ==
  (Succeeded /\ Binary(req.handler)) =>
     IF TheResponse.body = "binary"
     THEN MetaOfHeaders(TheResponse.headers)
            = MetaOfJson(SuccessJson(req.handler, req.file, req.body))
     ELSE MetaOfJson(TheResponse.json)
            = MetaOfHeaders(BinaryHeaders(req.handler, req.file, req.body))

\* A response that reports an error.
IsError(resp) == resp.status >= 400

\* C12: every error response has the JSON body {success: 0, errormessage:
\* <a non-empty string>}, whatever responseMode the request carried and
\* whichever component answered.
C12_ErrorEnvelope ==
  \A i \in 1..Len(req.responses) :
     LET resp == req.responses[i]
     IN  IsError(resp) =>
           /\ resp.body = "error"
           /\ DOMAIN resp.json = {"success", "errormessage"}
           /\ resp.json["success"] = JNum(Num(0))
           /\ resp.json["errormessage"].t = "string"
           /\ resp.json["errormessage"].s # <<>>

\* C12's case: binary mode was requested, the output could not be read, and
\* the error handler answered.
C12_Witness ==
  /\ Done /\ req.responseMode = sBinary /\ req.err.site = "readFile"
  /\ TheResponse.by = "errorHandler" /\ IsError(TheResponse)

\* C13: the errormessage of a response holds neither the tool's stderr, nor
\* the command line, nor a temp-file path.
C13_NoInternalsInMessage ==
  \A i \in 1..Len(req.responses) :
     LET resp == req.responses[i]
     IN  IsError(resp) =>
           Range(resp.json["errormessage"].s) \cap {CommandLine, Stderr, TempPath} = {}

\* C14: an upload over the size limit is answered with 413 and the error
\* envelope; no temp file is written for it and the tool does not run.
C14_TooLargeIs413 ==
  req.upload = "overLimit" =>
     /\ OwnFiles = {} /\ Assigned = {} /\ req.toolRuns = 0
     /\ "write" \notin Range(req.events)
     /\ Done => /\ Len(req.responses) = 1
                /\ TheResponse.status = 413 /\ TheResponse.body = "error"
                /\ DOMAIN TheResponse.json = {"success", "errormessage"}

\* C14's case: a request with an upload over the limit has been answered.
C14_Witness ==
  Done /\ Processing /\ req.upload = "overLimit" /\ TheResponse.status = 413

\* The MIME types the endpoints are to accept.
AllowedTypes == {mJpeg, mPng, mGif, mWebp, mBmp, mTiff, mSvg}
\* The request's file has been read and is missing or of another type.
BadFile == req.file # Unread /\ (req.file = NoFile \/ req.file \notin AllowedTypes)
\* The message for such a file.
BadFileMessage ==
  IF req.file = NoFile
  THEN <<"No image file provided. Please upload an image using the \"image\" field.">>
  ELSE <<"Invalid file type. Supported formats: image/jpeg, image/png, image/gif, image/webp, image/bmp, image/tiff, image/svg+xml">>

\* C15: a request without a file, or with a file whose MIME type is outside
\* the allow-list, fails with a message that says so, and no temp file is
\* written or deleted and no tool is run for it.
C15_BadFileLeavesNoTrace ==
  BadFile =>
     /\ OwnFiles = {} /\ Assigned = {} /\ req.toolRuns = 0
     /\ "write" \notin Range(req.events) /\ req.unlinks = <<>>
     /\ req.pc # "validate" =>
          req.err.site = "validation" /\ req.err.message = BadFileMessage
     /\ Done => /\ Len(req.responses) = 1 /\ IsError(TheResponse)
                /\ TheResponse.json["errormessage"].s = BadFileMessage

\* C15's case: a text/plain upload was rejected on a processing endpoint.
C15_Witness ==
  /\ Done /\ Processing /\ req.file = mText
  /\ IsError(TheResponse) /\ fsFiles = {}

\* The handlers that take a quality.
TakesQuality == req.handler \in {"optimize", "optimize_fmt", "convert"}

\* A supplied quality whose number (Number(quality), in tenths) is not an
\* integer of 1..100.
QualityOutside(quality) ==
  /\ quality # Undefined
  /\ LET v == NumberOf(quality)
     IN  v.nan \/ v.n < 10 \/ v.n > 1000 \/ v.n % 10 # 0

\* C16: a request whose quality is outside 1..100 fails validation before
\* the tool runs, and a quality handed to the tool is an integer of 1..100.
C16_QualityInRange ==
  (TakesQuality /\ req.body.quality # Unread) =>
     /\ QualityOutside(req.body.quality) =>
          req.toolRuns = 0 /\ req.err.site = "validation"
     /\ (req.toolRuns > 0 /\ "-quality" \in DOMAIN req.command.options) =>
          req.command.options["-quality"] \in {NatToString(n) : n \in 1..100}

\* A field of the success response's metadata, as text: the field of the
\* JSON envelope or the X-Image-* header.
Reported(key) ==
  IF TheResponse.body = "binary"
  THEN TheResponse.headers["X-Image-" \o Capitalise(key)]
  ELSE String(TheResponse.json[key])

\* C17: on /resize, a request with neither width nor height fails
\* validation; with both, the geometry is width x height, exact; with one,
\* the geometry fixes that one and the other is reported as "auto".
C17_ResizeGeometry ==
  (req.handler = "resize" /\ req.body.width # Unread) =>
     LET width == req.body.width
         height == req.body.height
         geometry == req.command.options["-resize"]
     IN  /\ (width = Undefined /\ height = Undefined) =>
              req.toolRuns = 0 /\ req.err.site = "validation"
         /\ (req.toolRuns > 0 /\ width # Undefined /\ height # Undefined) =>
              geometry = Interpolate(ParseInt(width)) \o <<"x">>
                           \o Interpolate(ParseInt(height)) \o <<"!">>
         /\ (req.toolRuns > 0 /\ width # Undefined /\ height = Undefined) =>
              /\ geometry = Interpolate(ParseInt(width)) \o <<"x">>
              /\ Succeeded => Reported("height") = sAuto
         /\ (req.toolRuns > 0 /\ width = Undefined /\ height # Undefined) =>
              /\ geometry = <<"x">> \o Interpolate(ParseInt(height))
              /\ Succeeded => Reported("width") = sAuto

\* C18: a successful /resize, /rotate or /crop that declared an image
\* format (png, jpg) reports the format the request declared: in the
\* format field, in the mimetype when there is one, and in the extension
\* of the output file.
C18_ReportedFormatIsDeclared ==
  (/\ Succeeded
   /\ req.handler \in {"resize", "rotate", "rotate_b64", "crop", "crop_b64"}
   /\ req.body.format \in {sPng, sJpg}) =>
     LET declared == ToLowerCase(req.body.format)
     IN  /\ Reported("format") = declared
         /\ AfterLast(req.outputPath.tail, ".") = declared
         /\ SendsMimetype(req.handler) => Reported("mimetype") = getMimeType(declared)

\* C19: /convert runs the tool only for a format of the allow-list (in any
\* case), reports jpeg as jpg, and passes a quality to the tool only for
\* jpg, jpeg and webp.
C19_ConvertFormats ==
  (req.handler = "convert" /\ req.body.format # Unread) =>
     LET target == ToLowerCase(req.body.format)
     IN  /\ target \notin {sPng, sJpg, sJpeg, sWebp, sGif, sBmp, sTiff, sSvg} =>
              req.toolRuns = 0 /\ req.err.site = "validation"
         /\ (Succeeded /\ target = sJpeg) => Reported("format") = sJpg
         /\ (req.toolRuns > 0 /\ "-quality" \in DOMAIN req.command.options) =>
              target \in {sJpg, sJpeg, sWebp}

\* C19's case: a conversion to PNG with a quality has run the tool without
\* the quality option, and one to JPEG has answered with the format jpg.
C19_Witness ==
  /\ req.handler = "convert" /\ Succeeded
  /\ \/ /\ req.body.format = sPng /\ req.body.quality = s1
        /\ req.command.options = NoOptions
     \/ /\ req.body.format = sJPEG /\ Reported("format") = sJpg
        /\ Truthy(req.body.quality) /\ "-quality" \in DOMAIN req.command.options

\* An operation/value pair that /rotate is to accept.
RotatePairOk(operation, value) ==
  \/ /\ ToLowerCase(operation) = sRotate
     /\ LET v == NumberOf(value)
        IN  ~v.nan /\ v.n \in {900, 1800, 2700, -900, -1800, -2700}
  \/ /\ ToLowerCase(operation) = sFlip
     /\ ToLowerCase(value) \in {sHorizontal, sVertical}

\* C20: /rotate neither runs the tool nor answers with success for an
\* operation/value pair other than rotate with a quarter turn or flip with
\* horizontal or vertical.
C20_RotatePairs ==
  (req.handler \in {"rotate", "rotate_b64"} /\ req.body.operation # Unread
     /\ ~RotatePairOk(req.body.operation, req.body.value)) =>
     /\ req.toolRuns = 0 /\ ~Succeeded
     /\ Done => IsError(TheResponse)

\* C21: on /optimize the quality is the only required parameter: a request
\* with a valid quality and no format is not rejected for its parameters,
\* and the format handed to the tool and reported is the uploaded file's.
C21_FormatOptional ==
  (req.handler \in {"optimize", "optimize_fmt"} /\ req.body.quality \in {s1, s100}
     /\ req.body.format \in {Undefined, Unread}) =>
     /\ req.err.site # "validation"
     /\ req.toolRuns > 0 => req.command.format = getExtension(req.file)
     /\ Succeeded => Reported("format") = getExtension(req.file)

\* C24: a request runs the external tool at most once; when the run fails
\* (non-zero exit, spawn failure, output over maxBuffer: exec rejects), the
\* handler does not run it again and the request is answered with status
\* 500 and the error envelope.
C24_ToolAtMostOnce ==
  /\ req.toolRuns <= 1
  /\ req.err.site = "executeCommand" =>
       /\ req.toolRuns = 1
       /\ req.pc \in {"catch", "errorHandler", "done"}
       /\ Done => /\ Len(req.responses) = 1
                  /\ TheResponse.status = 500
                  /\ DOMAIN TheResponse.json = {"success", "errormessage"}
                  /\ TheResponse.json["success"] = JNum(Num(0))
                  /\ TheResponse.json["errormessage"].t = "string"

\* C24's case: the tool failed on its only run and the request was answered
\* with status 500.
C24_Witness ==
  /\ Done /\ req.err.site = "executeCommand" /\ req.toolRuns = 1
  /\ TheResponse.status = 500 /\ TheResponse.by = "errorHandler"

\* The response that the request's error, or its absence, selects.
ChosenResponse(resp) ==
  IF req.err = NoErr
  THEN resp.status = 200 /\ resp.by = "handler"
  ELSE /\ resp.by = "errorHandler"
       /\ resp.status = (IF req.err.code = "LIMIT_FILE_SIZE" THEN 413
                         ELSE IF req.err.name = "MulterError" THEN 400 ELSE 500)
       /\ resp.json["success"] = JNum(Num(0))

\* C25: a deletion that failed is not surfaced: the error of the request is
\* none or the one the handler threw itself, a response already sent stays
\* the only one, the response of the completed request is the one chosen
\* without regard to the deletion, and deleteFile was still called on every
\* assigned path.
C25_DeleteFailureNotSurfaced ==
  req.unlinkFailed # {} =>
     /\ req.err.site \in {"none", "validation", "saveTempFile", "resizeImage",
                          "executeCommand", "responseMode", "readFile", "respond",
                          "setHeader"}
     /\ Assigned \subseteq Range(req.unlinks)
     /\ Len(req.responses) <= 1
     /\ req.responses # <<>> => ChosenResponse(TheResponse)
     /\ Done => req.responses # <<>>

\* C25's case: the deletion of the input file failed after the success
\* response was sent; the output file was deleted all the same.
C25_Witness ==
  /\ Done /\ Binary(req.handler) /\ req.err = NoErr /\ TheResponse.status = 200
  /\ req.unlinkFailed = {req.inputPath}
  /\ req.unlinks = <<req.inputPath, req.outputPath>>
  /\ req.outputPath \notin fsFiles

C29_ResizeReachesTool ==
  (req.handler = "resize" /\ req.inputPath # NoPath) =>
     /\ req.err.site # "resizeImage"
     /\ (req.toolRuns > 0 /\ req.body.width # Undefined /\ req.body.height # Undefined) =>
          \E w \in 0..8, hh \in 0..6 :
            req.command.options["-resize"]
              = NatToString(w) \o <<"x">> \o NatToString(hh) \o <<"!">>

\* The text of a number as a template string writes it: NaN, or decimal
\* digits after an optional minus sign.
IsNumberText(s) ==
  \/ s = <<"N", "a", "N">>
  \/ /\ s # <<>>
     /\ \A i \in 1..Len(s) : IsDigit(s[i]) \/ (i = 1 /\ s[i] = "-" /\ Len(s) > 1)

\* The pieces of a geometry or offset argument: the texts between its
\* separators "x", "+" and "!".
RECURSIVE Pieces(_)
Pieces(s) ==
  IF \A i \in 1..Len(s) : s[i] \notin {"x", "+", "!"} THEN {s}
  ELSE LET k == CHOOSE i \in 1..Len(s) : s[i] \in {"x", "+", "!"}
       IN  {SubSeq(s, 1, k - 1)} \cup Pieces(SubSeq(s, k + 1, Len(s)))

\* C27: whatever of the request reaches the command line of the tool was
\* parsed to an integer or is a member of a fixed list: the format prefix
\* is a format of the allow-list, and the arguments of the options built
\* from the request are numbers.
C27_InterpolatedValuesChecked ==
  req.toolRuns > 0 =>
     /\ req.command.format \in {sPng, sJpg, sJpeg, sWebp, sGif, sBmp, sTiff, sSvg}
     /\ \A option \in DOMAIN req.command.options \cap {"-resize", "-rotate", "-crop", "-quality"} :
          \A piece \in Pieces(req.command.options[option]) \ {<<>>} : IsNumberText(piece)
     /\ DOMAIN req.command.options \subseteq
          {"-resize", "-rotate", "-crop", "-quality", "-flip", "-flop", "-trim", "+repage",
           "-strip", "-contrast-stretch", "-sharpen", "-dither", "-remap", "-depth"}

\* The text of the number validateNumeric checked (Number(x), in tenths),
\* when it is a non-negative integer; no text otherwise.
ValidatedText(x) ==
  LET v == NumberOf(x)
  IN  IF v.nan \/ v.n < 0 \/ v.n % 10 # 0 THEN <<"?">> ELSE NatToString(v.n \div 10)

\* C28: a numeric parameter that passed validation reaches the tool, and
\* the metadata, as the non-negative integer that was validated: the quality
\* of /optimize and /convert, the width and height of /resize, the four
\* fields of a manual /crop.
C28_HandedIsValidated ==
  req.toolRuns > 0 =>
     /\ (TakesQuality /\ req.body.quality # Undefined) =>
          /\ "-quality" \in DOMAIN req.command.options =>
               req.command.options["-quality"] = ValidatedText(req.body.quality)
          /\ Succeeded => Reported("quality") = ValidatedText(req.body.quality)
     /\ (req.handler = "resize" /\ Succeeded) =>
          /\ req.body.width # Undefined => Reported("width") = ValidatedText(req.body.width)
          /\ req.body.height # Undefined => Reported("height") = ValidatedText(req.body.height)
     /\ (req.handler \in {"crop", "crop_b64"} /\ ToLowerCase(req.body.mode) = sManual) =>
          /\ req.command.options["-crop"]
               = ValidatedText(req.body.width) \o <<"x">> \o ValidatedText(req.body.height)
                   \o <<"+">> \o ValidatedText(req.body.x) \o <<"+">> \o ValidatedText(req.body.y)
          /\ Succeeded => /\ Reported("width") = ValidatedText(req.body.width)
                          /\ Reported("x") = ValidatedText(req.body.x)

\* C30: a response with the error envelope carries no success marker of
\* binary mode: no X-Image-Success header and no image Content-Type, also
\* when binaryResponse threw after it had set some headers.
C30_ErrorCarriesNoSuccessMarkers ==
  \A i \in 1..Len(req.responses) :
     LET resp == req.responses[i]
     IN  IsError(resp) =>
           /\ "X-Image-Success" \notin DOMAIN resp.headers
           /\ resp.headers["Content-Type"] = <<"application/json", "; charset=utf-8">>

\* The requests received and not forgotten: the one that runs and the
\* suspended or completed ones.
AllRequests == {r \in others \cup {req} : r.id # 0}
\* The temp paths a request has assigned.
PathsOf(r) == {r.inputPath, r.outputPath} \ {NoPath}

\* C22: whatever the interleaving, the temp paths of two requests are
\* distinct, a request's output path is not its input path, and a request
\* deletes (now or by a timer) only paths of its own.
C22_PathsNeverCollide ==
  \A r \in AllRequests :
     /\ r.outputPath # NoPath => r.outputPath # r.inputPath
     /\ Range(r.unlinks) \subseteq PathsOf(r)
     /\ \A o \in AllRequests : o.id # r.id => PathsOf(o) \cap PathsOf(r) = {}
     /\ Cardinality({o \in AllRequests : o.id = r.id}) = 1

\* C22's case: two requests are in flight with their input files written,
\* the second saved while the first waited for the tool.
C22_Witness ==
  /\ req.id = 2 /\ req.pc = "transform" /\ req.inputPath \in fsFiles
  /\ \E o \in others :
       /\ o.id = 1 /\ o.pc = "read"
       /\ {o.inputPath, o.outputPath} \subseteq fsFiles

\* The temp paths of the requests in flight together: input and output.
TempPaths ==
  UNION {{generateTempPath(id, sPng), ReplaceExt(generateTempPath(id, sPng), sOut \o <<".">> \o sPng)} :
           id \in 1..MaxInFlight}

\* C23: with a positive cleanup delay, a temp file whose deletion cleanup
\* has scheduled is deleted in the end.
C23_ScheduledIsDeleted ==
  (cleanupDelay > 0) =>
     \A pth \in TempPaths : [](pth \in Range(timers) => <>(pth \notin fsFiles))

====
